---- MODULE Spec2Model ----
(***************************************************************************)
(* Breathing Cosmos: the BreathingDetector (breathing.js), the particle    *)
(* field NebulaVisual (visuals/nebula.js), the audio engine                *)
(* (audio/engine.js, audio/synth.js) and the application that drives them  *)
(* (main.js, ui.js) as state machines.  Intensities are fixed-point        *)
(* numbers in units of 1/Scale, times of the detector are whole seconds,   *)
(* times of the animation loop are ticks of 1/60 second.  Every arithmetic *)
(* result is rounded to the nearest unit, as a floating-point result is    *)
(* rounded to the nearest representable number.                            *)
(***************************************************************************)
EXTENDS Integers, Naturals, Sequences, FiniteSets, TLC

\* ---------------------------------------------------------------- bounds
MaxDt == 2            \* largest delta time (seconds) passed to update
MaxDuration == 2      \* state.duration is followed up to this value
MaxCycles == 1        \* state.totalCycles is followed up to this value
MicLen == 1           \* number of bins of the microphone buffer
MaxNebulaDt == 3      \* largest delta time (ticks) passed to NebulaVisual.update
MaxSpawnTimer == 3    \* this.spawnTimer is followed up to this value
MaxTimers == 2        \* pending timers of BreathingSynth.stop
MaxResuming == 2      \* start() calls waiting for ctx.resume() at a time
MaxLag == 1           \* delta times down to -MaxLag; timers are followed down to it
MaxNow == 2           \* performance.now() is followed up to this value (ticks)
maxParticles == 2     \* this.maxParticles: the cap on live particles

\* ------------------------------------------------------------- constants
Scale == 100          \* intensity 1.0
SmoothNum == 15       \* smoothingFactor = 0.15 = SmoothNum / SmoothDen
SmoothDen == 100
InhaleThreshold == 80     \* intensity > 0.8
HoldInThreshold == 60     \* intensity > 0.6
ExhaleThreshold == 20     \* intensity > 0.2
MicDeadband == 1          \* |delta| > 0.01
MicReference == 128       \* rms / 128
NeutralIntensity == 50    \* 0.5
spawnRate == 3            \* this.spawnRate = 0.05 seconds, in ticks
spawnRadius == 100        \* random(0, 100 * intensity)
maxSpeed == 2             \* velocity.limit(2)
DefaultVolume == 30       \* masterGain 0.3

BreathPhase == [INHALE |-> "inhale", HOLD_IN |-> "hold_in",
                EXHALE |-> "exhale", HOLD_OUT |-> "hold_out"]

Modes == {"manual", "mic", "guided"}

\* guided patterns <<inhale, holdIn, exhale, holdOut>>; <<>> is null
NullPattern == <<>>
Pattern478 == <<4, 7, 8, 0>>
Patterns == {<<1, 1, 1, 0>>, <<1, 0, 1, 1>>, <<0, 0, 0, 0>>}

\* values a bin of the byte frequency buffer takes in the model
ByteLevels == {0, 90, 255}

VARIABLES
    mode,             \* this.mode
    phase,            \* this.state.phase
    intensity,        \* this.state.intensity
    duration,         \* this.state.duration
    totalCycles,      \* this.state.totalCycles
    isActive,         \* this.state.isActive
    isPressed,        \* this.isPressed
    targetIntensity,  \* this.targetIntensity
    hasAnalyser,      \* this.analyser and this.micDataArray are set
    guidedPattern,    \* this.guidedPattern
    guidedTimer,      \* this.guidedTimer
    emitted,          \* events handed to the listeners by the last call
    lastOp,           \* the call that ran last: "update", "reset" or "other"
    pc,               \* position of the press-release-press scenario
    canvasWidth,      \* NebulaVisual: this.canvasWidth
    canvasHeight,     \* NebulaVisual: this.canvasHeight
    particles,        \* NebulaVisual: this.particles, an array of Particle
    palette,          \* NebulaVisual: this.palette
    spawnTimer,       \* NebulaVisual: this.spawnTimer
    backgroundStars,  \* NebulaVisual: the area this.backgroundStars covers
    nebulaOp,         \* the NebulaVisual call that ran last: "update" or "other"
    ctx,              \* AudioEngine: this.ctx, by its state, or "null"
    synth,            \* AudioEngine: this.synth, a BreathingSynth or NullSynth
    isInitialized,    \* AudioEngine: this.isInitialized
    isPlaying,        \* AudioEngine: this.isPlaying
    isMuted,          \* AudioEngine: this.isMuted
    shutdownTimers,   \* pending timers of BreathingSynth.stop
    resuming,         \* start() calls waiting in await this.ctx.resume()
    audioOp,          \* the AudioEngine call or callback that ran last
    audioResult,      \* what that call returned or raised
    isRunning,        \* BreathingCosmosApp: this.isRunning
    lastTime,         \* BreathingCosmosApp: this.lastTime
    animationFrameId, \* BreathingCosmosApp: the callback this.animationFrameId
                      \* names is scheduled
    frames,           \* the frame callbacks scheduled, not yet run or cancelled
    now,              \* performance.now(), the time since page load
    session,          \* the startSession call in flight: where it waits
    sessionResult,    \* what the last startSession returned or raised
    sessionPaused,    \* pauseSession was called and resumeSession not yet
    lastTick,         \* the last _animate: its delta time and what it handed on
    appOp             \* the BreathingCosmosApp call or callback that ran last

state == <<phase, intensity, duration, totalCycles, isActive>>
vars == <<mode, phase, intensity, duration, totalCycles, isActive, isPressed,
          targetIntensity, hasAnalyser, guidedPattern, guidedTimer, emitted,
          lastOp, pc, canvasWidth, canvasHeight, particles, palette,
          spawnTimer, backgroundStars, nebulaOp, ctx, synth, isInitialized,
          isPlaying, isMuted, shutdownTimers, resuming, audioOp, audioResult,
          isRunning, lastTime, animationFrameId, frames, now, session,
          sessionResult,
          sessionPaused, lastTick, appOp>>

\* the state of the particle field
nebulaVars == <<canvasWidth, canvasHeight, particles, palette, spawnTimer,
                backgroundStars, nebulaOp>>
\* the state of the audio engine
audioVars == <<ctx, synth, isInitialized, isPlaying, isMuted, shutdownTimers,
               resuming, audioOp, audioResult>>
\* the state of the detector
detectorVars == <<mode, phase, intensity, duration, totalCycles, isActive,
                  isPressed, targetIntensity, hasAnalyser, guidedPattern,
                  guidedTimer, emitted, lastOp>>
\* the state of the application and of its animation loop
appVars == <<isRunning, lastTime, animationFrameId, frames, now, session,
             sessionResult, sessionPaused, lastTick, appOp>>
\* everything the detector's methods do not touch
beyondDetector == <<pc, nebulaVars, audioVars, appVars>>

\* ------------------------------------------------------------- utilities

\* rounding of num/den to the nearest integer (den > 0)
RoundDiv(num, den) == (2 * num + den) \div (2 * den)

Min(a, b) == IF a < b THEN a ELSE b
Max(a, b) == IF a > b THEN a ELSE b

clampIdentity(value, lo, hi) == value

\* utils.js clamp
clamp(value, lo, hi) == Min(Max(value, lo), hi)

Abs(x) == IF x < 0 THEN -x ELSE x

\* Math.sqrt on the integers met here, rounded down
RECURSIVE SqrtBetween(_, _, _)
SqrtBetween(x, lo, hi) ==
    IF lo = hi THEN lo
    ELSE LET mid == (lo + hi + 1) \div 2
         IN  IF mid * mid <= x THEN SqrtBetween(x, mid, hi)
             ELSE SqrtBetween(x, lo, mid - 1)
ISqrt(x) == SqrtBetween(x, 0, 255)

\* (1 - cos(pi * k/16)) / 2 in units of 1/Scale, k = 0..16
SineTable == <<0, 1, 4, 8, 15, 22, 31, 40, 50, 60, 69, 78, 85, 92, 96, 99, 100>>

\* the value standing for NaN in an intensity or a target: like NaN it is
\* above no threshold, and the arithmetic below hands it on
NaN == -1

\* Easing.easeInOutSine(num/den) = (1 - cos(pi * num/den)) / 2: the table
\* value, linearly interpolated between two table points; the function is even
\* and has period 2, and num/0 is an infinity or NaN, whose cosine is NaN
easeInOutSine(num, den) ==
    IF den = 0 THEN NaN
    ELSE LET a == Abs(num) % (2 * den)
             b == IF a > den THEN 2 * den - a ELSE a
             k == (16 * b) \div den
             r == (16 * b) % den
             lo == SineTable[k + 1]
             hi == IF k < 16 THEN SineTable[k + 2] ELSE lo
         IN  lo + RoundDiv((hi - lo) * r, den)

\* ========================================================= particle field
\* NebulaVisual and Particle (visuals/nebula.js).  Times of the particle
\* field are ticks of 1/60 second (deltaTime * 60), positions are pixels, velocities
\* and accelerations are in units of 1/Scale pixel per tick.  The size,
\* opacity and twinkle of a particle and targetParticleCount are written by
\* update and read by render only; they are left out.

\* random(3, 8): the lifetime a particle draws, in ticks
LifeChoices == {3}
\* random(0.3, 0.9): the colour positions a particle draws
ColorPositions == {60}
\* the palette names handed to setPalette
PaletteNames == {"deepSpace", "solarFlare"}
\* breathState.intensity as handed to NebulaVisual.update
NebulaIntensities == {0, 25, 100}
\* the delta times handed to NebulaVisual.update
NebulaDeltaTimes == 0..MaxNebulaDt
\* the sizes the canvas takes: the size at construction and a smaller one
InitialSize == <<4, 4>>
CanvasSizes == {InitialSize, <<2, 2>>}
\* random(0, Math.PI * 2): the directions a spawn draws, as (cos, sin)
SpawnAngles == {<<Scale, 0>>, <<-Scale, 0>>, <<0, -Scale>>}
\* random(0, 100 * intensity): the distances from the centre a spawn draws
SpawnDistances == {0, 3}
\* random(10, 30): the speeds a spawn draws
SpawnSpeeds == {20}

\* Vector2
VAdd(a, b) == <<a[1] + b[1], a[2] + b[2]>>
VSub(a, b) == <<a[1] - b[1], a[2] - b[2]>>
\* multiply by num / den
VMul(a, num, den) == <<RoundDiv(a[1] * num, den), RoundDiv(a[2] * num, den)>>
magnitude(a) ==
    IF a[2] = 0 THEN Abs(a[1])
    ELSE IF a[1] = 0 THEN Abs(a[2])
    ELSE SqrtBetween(a[1] * a[1] + a[2] * a[2], 0, 65535)
\* normalize().multiply(num / den): the unit vector times num / den, in
\* units of 1/Scale
normalizeTimes(a, num, den) ==
    IF magnitude(a) > 0
    THEN <<RoundDiv(a[1] * Scale * num, magnitude(a) * den),
           RoundDiv(a[2] * Scale * num, magnitude(a) * den)>>
    ELSE VMul(a, num, den)
\* limit(max) of a vector in units of 1/Scale
limit(a, max) ==
    IF magnitude(a) > max * Scale THEN normalizeTimes(a, max, 1) ELSE a

\* NebulaVisual.constructor
NebulaInit ==
    /\ canvasWidth = InitialSize[1]
    /\ canvasHeight = InitialSize[2]
    /\ particles = <<>>
    /\ palette = "deepSpace"
    /\ spawnTimer = 0
    /\ backgroundStars = InitialSize
    /\ nebulaOp = "other"

\* Particle.constructor followed by the velocity _spawnParticle assigns
Particle(x, y, paletteName, velocity, maxLife, colorPosition) ==
    [position |-> <<x, y>>, velocity |-> velocity, acceleration |-> <<0, 0>>,
     life |-> Scale, maxLife |-> maxLife, age |-> 0,
     palette |-> paletteName, colorPosition |-> colorPosition]

wrapHigh(c, size) == IF c > size THEN 0 ELSE c

\* the wrap-around of one coordinate
wrap(c, size) ==
    LET c1 == IF c < 0 THEN size ELSE c
    IN  IF c1 > size THEN 0 ELSE c1

\* the force Particle.update adds to the acceleration
steering(position, breathIntensity, w, h) ==
    LET center == <<w \div 2, h \div 2>>
    IN  IF breathIntensity < 30
        THEN normalizeTimes(VSub(center, position), 2, 100)
        ELSE normalizeTimes(VSub(position, center), breathIntensity, 100 * Scale)

\* Particle.update: the particle after the call; the call returns life > 0
particleUpdate(p, deltaTime, breathIntensity, w, h) ==
    LET age1 == p.age + deltaTime
        life1 == Scale - RoundDiv(age1 * Scale, p.maxLife)
        velocity1 == limit(VAdd(p.velocity, p.acceleration), maxSpeed)
        moved == VAdd(p.position, VMul(velocity1, deltaTime, Scale))
        acceleration1 == VAdd(p.acceleration,
                              steering(moved, breathIntensity, w, h))
    IN  [p EXCEPT !.age = age1,
                  !.life = life1,
                  !.velocity = velocity1,
                  !.position = <<wrap(moved[1], w), wrap(moved[2], h)>>,
                  !.acceleration = VMul(acceleration1, 0, 1)]

\* the particles _spawnParticle can push
spawnParticle(breathIntensity) ==
    { Particle(canvasWidth \div 2 + RoundDiv(angle[1] * distance, Scale),
               canvasHeight \div 2 + RoundDiv(angle[2] * distance, Scale),
               palette,
               VMul(angle, speed * breathIntensity, Scale),
               maxLife, colorPosition) :
        angle \in SpawnAngles,
        distance \in {d \in SpawnDistances : d * Scale <= spawnRadius * breathIntensity},
        speed \in SpawnSpeeds,
        maxLife \in LifeChoices,
        colorPosition \in ColorPositions }

\* spawnRate / (1 + intensity * 2)
adjustedSpawnRate(breathIntensity) ==
    RoundDiv(spawnRate * Scale, Scale + 2 * breathIntensity)

uncapped(ps) == TRUE

\* this.particles.length < this.maxParticles
belowCap(ps) == Len(ps) < maxParticles

\* the spawn loop of update: the <<spawnTimer, particles>> pairs it can end in
RECURSIVE spawnLoop(_, _, _)
spawnLoop(timer, ps, breathIntensity) ==
    IF timer >= adjustedSpawnRate(breathIntensity) /\ belowCap(ps)
    THEN UNION { spawnLoop(timer - adjustedSpawnRate(breathIntensity),
                           Append(ps, q), breathIntensity) :
                   q \in spawnParticle(breathIntensity) }
    ELSE {<<timer, ps>>}

keepAll(p) == TRUE

\* the filter of update: what Particle.update returns
alive(p) == p.life > 0

\* NebulaVisual.update(breathState, deltaTime)
nebulaUpdate(breathIntensity, deltaTime) ==
    /\ \E spawned \in spawnLoop(spawnTimer + deltaTime, particles, breathIntensity) :
         /\ spawnTimer' = spawned[1]
         /\ \E updated \in {[k \in 1..Len(spawned[2]) |->
                               particleUpdate(spawned[2][k], deltaTime,
                                              breathIntensity,
                                              canvasWidth, canvasHeight)]} :
              particles' = SelectSeq(updated, alive)
    /\ nebulaOp' = "update"
    /\ UNCHANGED <<canvasWidth, canvasHeight, palette, backgroundStars>>

nebulaResizeClears(width, height) ==
    /\ canvasWidth' = width
    /\ canvasHeight' = height
    /\ backgroundStars' = <<width, height>>
    /\ nebulaOp' = "other"
    /\ particles' = <<>>
    /\ spawnTimer' = 0
    /\ UNCHANGED palette

\* NebulaVisual.resize(width, height)
nebulaResize(width, height) ==
    /\ canvasWidth' = width
    /\ canvasHeight' = height
    /\ backgroundStars' = <<width, height>>
    /\ nebulaOp' = "other"
    /\ UNCHANGED <<particles, palette, spawnTimer>>

\* NebulaVisual.reset
nebulaReset ==
    /\ particles' = <<>>
    /\ spawnTimer' = 0
    /\ nebulaOp' = "other"
    /\ UNCHANGED <<canvasWidth, canvasHeight, palette, backgroundStars>>

\* Particle.render: the palette and the position its colour is sampled at,
\* getColorFromPalette(this.palette, this.colorPosition)
renderColor(p) == [palette |-> p.palette, at |-> p.colorPosition]

\* NebulaVisual.setPalette(paletteName)
setPalette(paletteName) ==
    /\ palette' = paletteName
    /\ nebulaOp' = "other"
    /\ UNCHANGED <<canvasWidth, canvasHeight, particles, spawnTimer,
                   backgroundStars>>

\* ================================================================== audio
\* AudioEngine (audio/engine.js) and BreathingSynth (audio/synth.js).  Levels
\* are in units of 1/Scale, frequencies in units of 10 Hz.  A generator is
\* "created", "started" or "stopped"; start() on a generator that is not
\* "created" and stop() on one that is "created" raise InvalidStateError.
\* The timer callback replaces the generators only after it has stopped them,
\* so the generators that sound are those of the current set.  audioResult is
\* "ok", "false" (init returned false) or the error the last call raised.

NullSynth == [null |-> TRUE]

Generators == <<"droneOsc", "breathOsc", "shimmerOsc">>

\* breath states handed to AudioEngine.update
AudioBreathStates ==
    [intensity : {0, Scale},
     phase : {BreathPhase.INHALE, BreathPhase.HOLD_IN,
              BreathPhase.EXHALE, BreathPhase.HOLD_OUT}]
\* Math.sin(now * 2) * 0.5 + 0.5 at the time of an update
Wobbles == {0, Scale}
\* the levels handed to setVolume
Volumes == {80}
\* what new AudioContext() and new BreathingSynth() do
InitOutcomes == {"ok", "noContext", "noSynth"}
\* the state of a new AudioContext (the autoplay policy may suspend it)
ContextStates == {"suspended", "running"}

\* utils.js lerp, t in units of 1/Scale
lerp(from, to, t) == from + RoundDiv((to - from) * t, Scale)

\* the first generator, in the order of Generators, that is not in the given
\* state; 4 when all are
RECURSIVE firstNot(_, _, _)
firstNot(oscillators, st, k) ==
    IF k > Len(Generators) THEN k
    ELSE IF oscillators[Generators[k]] # st THEN k
    ELSE firstNot(oscillators, st, k + 1)

\* the generators before the k-th taken to the state st
firstTo(oscillators, k, st) ==
    [o \in DOMAIN oscillators |->
        IF \E j \in 1..(k - 1) : Generators[j] = o THEN st ELSE oscillators[o]]

\* BreathingSynth._init
synthInit(s) ==
    [s EXCEPT !.masterGain = DefaultVolume,
              !.filterFreq = 200,
              !.oscillators = [o \in {"droneOsc", "breathOsc", "shimmerOsc"} |-> "created"],
              !.breathFreq = 20,
              !.breathGain = 0,
              !.shimmerFreq = 120,
              !.shimmerGain = 0]

\* new BreathingSynth(ctx)
BreathingSynth ==
    synthInit([isPlaying |-> FALSE, currentBreathFreq |-> 20,
               targetBreathFreq |-> 20, masterGain |-> "null",
               filterFreq |-> "null", oscillators |-> "null",
               breathFreq |-> "null", breathGain |-> "null",
               shimmerFreq |-> "null", shimmerGain |-> "null"])

startNone(oscillators, k) == oscillators

\* the three start() calls of BreathingSynth.start, up to the first that raises
startGenerators(oscillators, k) == firstTo(oscillators, k, "started")

\* BreathingSynth.start raises InvalidStateError
synthStartThrows(s) ==
    ~s.isPlaying /\ firstNot(s.oscillators, "created", 1) <= Len(Generators)

\* BreathingSynth.start
synthStart(s) ==
    IF s.isPlaying THEN s
    ELSE IF synthStartThrows(s)
    THEN [s EXCEPT !.oscillators =
             startGenerators(@, firstNot(s.oscillators, "created", 1))]
    ELSE [s EXCEPT !.oscillators = startGenerators(@, Len(Generators) + 1),
                   !.masterGain = DefaultVolume,
                   !.isPlaying = TRUE]

\* BreathingSynth.stop schedules the shutdown
synthStopSchedules(s) == s.isPlaying

\* BreathingSynth.stop, the timer apart
synthStop(s) ==
    IF ~s.isPlaying THEN s ELSE [s EXCEPT !.masterGain = 0]

\* the callback of the timer of BreathingSynth.stop raises InvalidStateError
shutdownThrows(s) ==
    \E o \in DOMAIN s.oscillators : s.oscillators[o] = "created"

\* the callback of the timer of BreathingSynth.stop
synthShutdown(s) ==
    IF shutdownThrows(s)
    THEN [s EXCEPT !.oscillators =
             [o \in DOMAIN @ |->
                 IF \E j \in 1..Len(Generators) :
                        /\ Generators[j] = o
                        /\ \A i \in 1..j : @[Generators[i]] # "created"
                 THEN "stopped" ELSE @[o]]]
    ELSE synthInit([s EXCEPT !.isPlaying = FALSE])

synthUpdateShimmerOnHoldIn(s, breathState, wobble) ==
    IF ~s.isPlaying THEN s
    ELSE [s EXCEPT
            !.targetBreathFreq = lerp(20, 80, breathState.intensity),
            !.currentBreathFreq =
                lerp(@, lerp(20, 80, breathState.intensity), 10),
            !.breathFreq =
                lerp(s.currentBreathFreq, lerp(20, 80, breathState.intensity), 10),
            !.breathGain = clamp(RoundDiv(breathState.intensity * 25, Scale), 0, 25),
            !.filterFreq = lerp(80, 400, breathState.intensity),
            !.shimmerGain =
                IF breathState.phase = BreathPhase.HOLD_IN THEN 8 ELSE 0,
            !.shimmerFreq = lerp(100, 150, wobble)]

\* BreathingSynth.update
synthUpdate(s, breathState, wobble) ==
    IF ~s.isPlaying THEN s
    ELSE [s EXCEPT
            !.targetBreathFreq = lerp(20, 80, breathState.intensity),
            !.currentBreathFreq =
                lerp(@, lerp(20, 80, breathState.intensity), 10),
            !.breathFreq =
                lerp(s.currentBreathFreq, lerp(20, 80, breathState.intensity), 10),
            !.breathGain = clamp(RoundDiv(breathState.intensity * 25, Scale), 0, 25),
            !.filterFreq = lerp(80, 400, breathState.intensity),
            !.shimmerGain =
                IF breathState.phase \in {BreathPhase.HOLD_IN, BreathPhase.HOLD_OUT}
                THEN 8 ELSE 0,
            !.shimmerFreq = lerp(100, 150, wobble)]

\* BreathingSynth.setVolume
synthSetVolume(s, volume) == [s EXCEPT !.masterGain = clamp(volume, 0, Scale)]
\* BreathingSynth.mute
mute(s) == synthSetVolume(s, 0)
\* BreathingSynth.unmute
unmute(s) == synthSetVolume(s, DefaultVolume)

\* AudioEngine.constructor
AudioInit ==
    /\ ctx = "null"
    /\ synth = NullSynth
    /\ isInitialized = FALSE
    /\ isPlaying = FALSE
    /\ isMuted = FALSE
    /\ shutdownTimers = 0
    /\ resuming = 0
    /\ audioOp = "new"
    /\ audioResult = "ok"

\* what AudioEngine.init leaves in ctx, synth and isInitialized, and what it
\* returns
initResult(outcome, contextState) ==
    IF isInitialized
    THEN [ctx |-> ctx, synth |-> synth, isInitialized |-> TRUE, result |-> "ok"]
    ELSE IF outcome = "ok"
    THEN [ctx |-> contextState, synth |-> BreathingSynth,
          isInitialized |-> TRUE, result |-> "ok"]
    ELSE IF outcome = "noSynth"
    THEN [ctx |-> contextState, synth |-> synth,
          isInitialized |-> FALSE, result |-> "false"]
    ELSE [ctx |-> ctx, synth |-> synth,
          isInitialized |-> FALSE, result |-> "false"]

\* AudioEngine.init
engineInit(outcome, contextState) ==
    /\ \E e \in {initResult(outcome, contextState)} :
         /\ ctx' = e.ctx
         /\ synth' = e.synth
         /\ isInitialized' = e.isInitialized
         /\ audioResult' = e.result
    /\ audioOp' = "init"
    /\ UNCHANGED <<isPlaying, isMuted, shutdownTimers, resuming>>

\* the end of AudioEngine.start: if (this.synth && !this.isPlaying) ...
finishStart(s) ==
    IF s # NullSynth /\ ~isPlaying
    THEN /\ synth' = synthStart(s)
         /\ IF synthStartThrows(s)
            THEN audioResult' = "InvalidStateError" /\ UNCHANGED isPlaying
            ELSE audioResult' = "ok" /\ isPlaying' = TRUE
    ELSE /\ synth' = s
         /\ audioResult' = "ok"
         /\ UNCHANGED isPlaying

\* AudioEngine.start up to its end or to the await of ctx.resume()
engineStart(outcome, contextState) ==
    /\ \E e \in {IF isInitialized
                 THEN [ctx |-> ctx, synth |-> synth, isInitialized |-> TRUE]
                 ELSE initResult(outcome, contextState)} :
         /\ ctx' = e.ctx
         /\ isInitialized' = e.isInitialized
         /\ IF e.ctx = "null"
            THEN /\ audioResult' = "TypeError"
                 /\ synth' = e.synth
                 /\ UNCHANGED <<isPlaying, resuming>>
            ELSE IF e.ctx = "suspended"
            THEN /\ resuming' = resuming + 1
                 /\ audioResult' = "ok"
                 /\ synth' = e.synth
                 /\ UNCHANGED isPlaying
            ELSE /\ finishStart(e.synth)
                 /\ UNCHANGED resuming
    /\ audioOp' = "start"
    /\ UNCHANGED <<isMuted, shutdownTimers>>

\* AudioEngine.start after ctx.resume() has resolved
resumed ==
    /\ resuming > 0
    /\ resuming' = resuming - 1
    /\ ctx' = "running"
    /\ finishStart(synth)
    /\ audioOp' = "start"
    /\ UNCHANGED <<isInitialized, isMuted, shutdownTimers>>

engineStopUnguarded ==
    /\ IF synth = NullSynth
       THEN audioResult' = "TypeError" /\ UNCHANGED <<synth, shutdownTimers>>
       ELSE /\ synth' = synthStop(synth)
            /\ shutdownTimers' =
                   shutdownTimers + (IF synthStopSchedules(synth) THEN 1 ELSE 0)
            /\ audioResult' = "ok"
    /\ isPlaying' = FALSE
    /\ audioOp' = "stop"
    /\ UNCHANGED <<ctx, isInitialized, isMuted, resuming>>

\* AudioEngine.stop
engineStop ==
    /\ IF synth # NullSynth /\ isPlaying
       THEN /\ synth' = synthStop(synth)
            /\ shutdownTimers' =
                   shutdownTimers + (IF synthStopSchedules(synth) THEN 1 ELSE 0)
            /\ isPlaying' = FALSE
       ELSE UNCHANGED <<synth, shutdownTimers, isPlaying>>
    /\ audioResult' = "ok"
    /\ audioOp' = "stop"
    /\ UNCHANGED <<ctx, isInitialized, isMuted, resuming>>

\* the timer of BreathingSynth.stop fires
shutdown ==
    /\ shutdownTimers > 0
    /\ shutdownTimers' = shutdownTimers - 1
    /\ synth' = synthShutdown(synth)
    /\ audioResult' = IF shutdownThrows(synth) THEN "InvalidStateError" ELSE "ok"
    /\ audioOp' = "shutdown"
    /\ UNCHANGED <<ctx, isInitialized, isPlaying, isMuted, resuming>>

engineUpdateUnguarded(breathState, wobble) ==
    /\ synth' = IF synth # NullSynth
                THEN synthUpdate(synth, breathState, wobble) ELSE synth
    /\ audioResult' = "ok"
    /\ audioOp' = "update"
    /\ UNCHANGED <<ctx, isInitialized, isPlaying, isMuted, shutdownTimers,
                   resuming>>

\* AudioEngine.update
engineUpdate(breathState, wobble) ==
    /\ synth' = IF isPlaying /\ synth # NullSynth /\ ~isMuted
                THEN synthUpdate(synth, breathState, wobble) ELSE synth
    /\ audioResult' = "ok"
    /\ audioOp' = "update"
    /\ UNCHANGED <<ctx, isInitialized, isPlaying, isMuted, shutdownTimers,
                   resuming>>

\* AudioEngine.toggleMute
toggleMute ==
    /\ isMuted' = ~isMuted
    /\ synth' = IF synth = NullSynth THEN synth
                ELSE IF ~isMuted THEN mute(synth) ELSE unmute(synth)
    /\ audioResult' = "ok"
    /\ audioOp' = "toggleMute"
    /\ UNCHANGED <<ctx, isInitialized, isPlaying, shutdownTimers, resuming>>

\* AudioEngine.setVolume
engineSetVolume(volume) ==
    /\ synth' = IF synth = NullSynth THEN synth
                ELSE synthSetVolume(synth, volume)
    /\ audioResult' = "ok"
    /\ audioOp' = "setVolume"
    /\ UNCHANGED <<ctx, isInitialized, isPlaying, isMuted, shutdownTimers,
                   resuming>>

\* ============================================================== detector
\* ============================================================ application
\* BreathingCosmosApp (main.js).  The clock now, lastTime and the delta times
\* of the animation loop are ticks of 1/60 second; NebulaVisual.update gets
\* the delta time in these ticks and BreathingDetector.update gets it rounded
\* to whole seconds.

\* Math.min(..., 0.1): the cap of the delta time, 0.1 second
MaxDeltaTime == 6
\* the modes the welcome buttons hand to startSession
SessionModes == {"manual", "mic"}
\* a stall of the tab: more ticks than the cap
StallTicks == MaxDeltaTime + 1
\* Math.sin(now * 2) * 0.5 + 0.5, the shimmer wobble at a time
wobbleAt(t) == IF t % 2 = 0 THEN 0 ELSE Scale
\* the calls of one _animate, in the order of the code
TickCalls == <<"breathing.update", "getState", "visuals.update",
               "audio.update", "render">>
NoSnapshot == <<>>
NoTick == [ran |-> FALSE, at |-> 0, deltaTime |-> 0, calls |-> <<>>,
           visualsSaw |-> NoSnapshot, audioSaw |-> NoSnapshot]
NoSession == [at |-> "idle", mode |-> "manual", ahead |-> 0]

\* BreathingCosmosApp.constructor
AppInit ==
    /\ isRunning = FALSE
    /\ lastTime = 0
    /\ animationFrameId = FALSE
    /\ frames = 0
    /\ now = 0
    /\ session = NoSession
    /\ sessionResult = "none"
    /\ sessionPaused = FALSE
    /\ lastTick = NoTick
    /\ appOp = "new"

\* ----------------------------------------------------------------- Init
\* BreathingDetector.constructor
Init ==
    /\ mode = "manual"
    /\ phase = BreathPhase.EXHALE
    /\ intensity = NeutralIntensity
    /\ duration = 0
    /\ totalCycles = 0
    /\ isActive = FALSE
    /\ isPressed = FALSE
    /\ targetIntensity = NeutralIntensity
    /\ hasAnalyser = FALSE
    /\ guidedPattern = NullPattern
    /\ guidedTimer = 0
    /\ emitted = <<>>
    /\ lastOp = "other"
    /\ pc = "free"
    /\ NebulaInit
    /\ AudioInit
    /\ AppInit

\* -------------------------------------------------------- manual controls
\* keydown (Space, not a repeat), mousedown, touchstart
handlePointerDown ==
    /\ IF mode = "manual"
         THEN /\ isPressed' = TRUE
              /\ targetIntensity' = Scale
         ELSE UNCHANGED <<isPressed, targetIntensity>>
    /\ emitted' = <<>>
    /\ lastOp' = "other"
    /\ UNCHANGED <<mode, state, hasAnalyser, guidedPattern, guidedTimer>>

handlePointerUpKeepsTarget ==
    /\ IF mode = "manual"
         THEN /\ isPressed' = FALSE
              /\ UNCHANGED targetIntensity
         ELSE UNCHANGED <<isPressed, targetIntensity>>
    /\ emitted' = <<>>
    /\ lastOp' = "other"
    /\ UNCHANGED <<mode, state, hasAnalyser, guidedPattern, guidedTimer>>

\* keyup (Space), mouseup, mouseleave, touchend, touchcancel
handlePointerUp ==
    /\ IF mode = "manual"
         THEN /\ isPressed' = FALSE
              /\ targetIntensity' = 0
         ELSE UNCHANGED <<isPressed, targetIntensity>>
    /\ emitted' = <<>>
    /\ lastOp' = "other"
    /\ UNCHANGED <<mode, state, hasAnalyser, guidedPattern, guidedTimer>>

\* ------------------------------------------------------------ microphone
\* initMicrophone: ok is whether acquisition and graph creation succeed
initMicrophone(ok) ==
    /\ IF ok
         THEN /\ hasAnalyser' = TRUE
              /\ mode' = "mic"
         ELSE /\ mode' = "manual"
              /\ UNCHANGED hasAnalyser
    /\ emitted' = <<>>
    /\ lastOp' = "other"
    /\ UNCHANGED <<state, isPressed, targetIntensity, guidedPattern, guidedTimer>>

RECURSIVE SumSquares(_, _)
SumSquares(data, n) ==
    IF n = 0 THEN 0 ELSE data[n] * data[n] + SumSquares(data, n - 1)

\* _updateFromMicrophone: the target intensity it leaves, data being what
\* getByteFrequencyData wrote into micDataArray
updateFromMicrophone(data) ==
    IF ~hasAnalyser THEN targetIntensity
    ELSE LET sum == SumSquares(data, MicLen)
             rms == ISqrt(sum \div MicLen)
             rawIntensity == clamp(RoundDiv(rms * Scale, MicReference), 0, Scale)
             delta == rawIntensity - intensity
         IN  IF Abs(delta) > MicDeadband THEN rawIntensity ELSE targetIntensity

\* ---------------------------------------------------------------- guided
setGuidedPattern(pattern) ==
    /\ guidedPattern' = pattern
    /\ guidedTimer' = 0
    /\ mode' = "guided"
    /\ emitted' = <<>>
    /\ lastOp' = "other"
    /\ UNCHANGED <<state, isPressed, targetIntensity, hasAnalyser>>

wrapTimerLate(advanced, totalTime) == IF advanced > totalTime THEN 0 ELSE advanced

\* the guided timer after the wrap test
wrapTimer(advanced, totalTime) == IF advanced >= totalTime THEN 0 ELSE advanced

guidedSegmentFlat(elapsed, p) ==
    IF elapsed < p.inhale
    THEN [target |-> easeInOutSine(elapsed, p.inhale),
          phase |-> BreathPhase.INHALE]
    ELSE IF elapsed < p.inhale
    THEN [target |-> Scale, phase |-> BreathPhase.HOLD_IN]
    ELSE IF elapsed < p.inhale + p.holdIn + p.exhale
    THEN [target |-> Scale,
          phase |-> BreathPhase.EXHALE]
    ELSE [target |-> 0, phase |-> BreathPhase.HOLD_OUT]

\* _updateFromGuided, "Determine phase and intensity": the target and the
\* phase at elapsed seconds into pattern p
guidedSegment(elapsed, p) ==
    IF elapsed < p.inhale
    THEN [target |-> easeInOutSine(elapsed, p.inhale),
          phase |-> BreathPhase.INHALE]
    ELSE IF elapsed < p.inhale + p.holdIn
    THEN [target |-> Scale, phase |-> BreathPhase.HOLD_IN]
    ELSE IF elapsed < p.inhale + p.holdIn + p.exhale
    THEN [target |-> Scale - easeInOutSine(elapsed - p.inhale - p.holdIn, p.exhale),
          phase |-> BreathPhase.EXHALE]
    ELSE [target |-> 0, phase |-> BreathPhase.HOLD_OUT]

\* the pattern as the object the code reads
patternOf(q) == [inhale |-> q[1], holdIn |-> q[2], exhale |-> q[3], holdOut |-> q[4]]

totalTimeOf(q) == q[1] + q[2] + q[3] + q[4]

\* _updateFromGuided: the timer, target and phase it leaves and the events
\* it emits
updateFromGuided(deltaTime) ==
    IF guidedPattern = NullPattern
    THEN [timer |-> guidedTimer, target |-> targetIntensity, phase |-> phase,
          events |-> <<>>]
    ELSE LET p == patternOf(guidedPattern)
             advanced == guidedTimer + deltaTime
             totalTime == p.inhale + p.holdIn + p.exhale + p.holdOut
             elapsed == wrapTimer(advanced, totalTime)
             seg == guidedSegment(elapsed, p)
         IN  [timer |-> elapsed, target |-> seg.target, phase |-> seg.phase,
              events |-> IF advanced >= totalTime
                         THEN << <<"cycleComplete", "">> >> ELSE <<>>]

\* ---------------------------------------------------------------- update
classifyNoHold(i) ==
    IF i > InhaleThreshold THEN BreathPhase.INHALE
    ELSE IF i > ExhaleThreshold THEN BreathPhase.EXHALE
    ELSE BreathPhase.HOLD_OUT

\* threshold-based phase detection
classify(i) ==
    IF i > InhaleThreshold THEN BreathPhase.INHALE
    ELSE IF i > HoldInThreshold THEN BreathPhase.HOLD_IN
    ELSE IF i > ExhaleThreshold THEN BreathPhase.EXHALE
    ELSE BreathPhase.HOLD_OUT

smoothAtOnce(i, target) ==
    IF i = NaN \/ target = NaN THEN NaN ELSE clamp(target, 0, Scale)

smoothAway(i, target) ==
    clamp(i - RoundDiv((target - i) * SmoothNum, SmoothDen), 0, Scale)

\* the smoothed and clamped intensity; Math.max and Math.min hand NaN on
smooth(i, target) ==
    IF i = NaN \/ target = NaN THEN NaN
    ELSE clamp(i + RoundDiv((target - i) * SmoothNum, SmoothDen), 0, Scale)

\* update(deltaTime) past the isActive guard; data is the microphone buffer
\* content of this call
updateActive(deltaTime, data) ==
            \E g \in {updateFromGuided(deltaTime)} :
            \E target \in {CASE mode = "mic" -> updateFromMicrophone(data)
                             [] mode = "guided" -> g.target
                             [] OTHER -> targetIntensity} :
            \E newIntensity \in {smooth(intensity, target)} :
            \E newPhase \in {IF mode = "guided" THEN g.phase
                             ELSE classify(newIntensity)} :
            LET prevPhase == phase
                changed == mode # "guided" /\ prevPhase # newPhase
                cycle == changed /\ prevPhase = BreathPhase.EXHALE
                                 /\ newPhase = BreathPhase.INHALE
            IN  /\ ~changed => duration + deltaTime <= MaxDuration
                /\ cycle => totalCycles < MaxCycles
                /\ targetIntensity' = target
                /\ guidedTimer' = IF mode = "guided" THEN g.timer ELSE guidedTimer
                /\ intensity' = newIntensity
                /\ phase' = newPhase
                /\ duration' = IF changed THEN 0 ELSE duration + deltaTime
                /\ totalCycles' = IF cycle THEN totalCycles + 1 ELSE totalCycles
                /\ emitted' = (IF mode = "guided" THEN g.events ELSE <<>>)
                       \o (IF changed THEN << <<"phaseChange", newPhase>> >> ELSE <<>>)
                       \o (IF cycle THEN << <<"cycleComplete", "">> >> ELSE <<>>)
                /\ UNCHANGED <<mode, isActive, isPressed, hasAnalyser, guidedPattern>>

updateUnguarded(deltaTime, data) ==
    /\ lastOp' = "update"
    /\ updateActive(deltaTime, data)

\* update(deltaTime)
update(deltaTime, data) ==
    /\ lastOp' = "update"
    /\ IF ~isActive
       THEN /\ emitted' = <<>>
            /\ UNCHANGED <<mode, state, isPressed, targetIntensity, hasAnalyser,
                           guidedPattern, guidedTimer>>
       ELSE updateActive(deltaTime, data)

\* --------------------------------------------------------------- control
startFresh ==
    /\ isActive' = TRUE
    /\ totalCycles' = 0
    /\ emitted' = <<>>
    /\ lastOp' = "other"
    /\ UNCHANGED <<mode, phase, intensity, duration, isPressed,
                   targetIntensity, hasAnalyser, guidedPattern, guidedTimer>>

start ==
    /\ isActive' = TRUE
    /\ emitted' = <<>>
    /\ lastOp' = "other"
    /\ UNCHANGED <<mode, phase, intensity, duration, totalCycles, isPressed,
                   targetIntensity, hasAnalyser, guidedPattern, guidedTimer>>

pause ==
    /\ isActive' = FALSE
    /\ emitted' = <<>>
    /\ lastOp' = "other"
    /\ UNCHANGED <<mode, phase, intensity, duration, totalCycles, isPressed,
                   targetIntensity, hasAnalyser, guidedPattern, guidedTimer>>

resetKeepsIntensity ==
    /\ totalCycles' = 0
    /\ duration' = 0
    /\ phase' = BreathPhase.EXHALE
    /\ emitted' = <<>>
    /\ lastOp' = "reset"
    /\ UNCHANGED <<mode, intensity, isActive, isPressed, targetIntensity,
                   hasAnalyser, guidedPattern, guidedTimer>>

reset ==
    /\ totalCycles' = 0
    /\ duration' = 0
    /\ intensity' = NeutralIntensity
    /\ phase' = BreathPhase.EXHALE
    /\ emitted' = <<>>
    /\ lastOp' = "reset"
    /\ UNCHANGED <<mode, isActive, isPressed, targetIntensity, hasAnalyser,
                   guidedPattern, guidedTimer>>

\* ------------------------------------------------------------ application
\* deltaTime * 60: the ticks of 1/60 second in a second
TicksPerSecond == 60

getStateBeforeUpdate ==
    [phase |-> phase, intensity |-> intensity, duration |-> duration,
     totalCycles |-> totalCycles, isActive |-> isActive]

\* BreathingDetector.getState as _animate calls it, after breathing.update:
\* a copy of this.state
getState ==
    [phase |-> phase', intensity |-> intensity', duration |-> duration',
     totalCycles |-> totalCycles', isActive |-> isActive']

\* Math.min((currentTime - this.lastTime) / 1000, 0.1)
deltaTimeOf(currentTime, last) == Min(currentTime - last, MaxDeltaTime)

\* _animate(currentTime) past the isRunning guard, this.lastTime being last;
\* data is the microphone buffer content and wobble the shimmer wobble of
\* this tick
animate(currentTime, last, data, wobble) ==
    \E deltaTime \in {deltaTimeOf(currentTime, last)} :
        /\ lastTime' = currentTime
        /\ update(RoundDiv(deltaTime, TicksPerSecond), data)
        /\ \E breathState \in {getState} :
             /\ nebulaUpdate(breathState.intensity, deltaTime)
             /\ engineUpdate(breathState, wobble)
             /\ lastTick' = [ran |-> TRUE, at |-> now, deltaTime |-> deltaTime,
                             calls |-> TickCalls,
                             visualsSaw |-> breathState,
                             audioSaw |-> breathState]
        /\ animationFrameId' = TRUE
        /\ appOp' = "tick"

loopStartUnguarded(data, wobble) ==
    /\ isRunning' = TRUE
    /\ animate(0, now, data, wobble)
    /\ frames' = frames + 1

\* BreathingCosmosApp.start, which runs the first _animate() itself, with
\* currentTime at its default 0
loopStart(data, wobble) ==
    IF isRunning
    THEN /\ appOp' = "start"
         /\ UNCHANGED <<detectorVars, nebulaVars, audioVars, isRunning,
                        lastTime, animationFrameId, frames, lastTick>>
    ELSE /\ isRunning' = TRUE
         /\ animate(0, now, data, wobble)
         /\ frames' = frames + 1

\* BreathingCosmosApp.stop: cancelAnimationFrame takes the callback the id
\* names out of the scheduled ones, if it is still among them
loopStop ==
    /\ isRunning' = FALSE
    /\ IF animationFrameId
       THEN animationFrameId' = FALSE /\ frames' = frames - 1
       ELSE UNCHANGED <<animationFrameId, frames>>
    /\ appOp' = "stop"

\* a scheduled frame callback (time) => this._animate(time) runs; own: it
\* is the one this.animationFrameId names
frame(own, data, wobble) ==
    IF isRunning
    THEN /\ animate(now, lastTime, data, wobble)
         /\ UNCHANGED <<isRunning, frames>>
    ELSE /\ animationFrameId' = (animationFrameId /\ ~own)
         /\ frames' = frames - 1
         /\ appOp' = "other"
         /\ UNCHANGED <<detectorVars, nebulaVars, audioVars, isRunning,
                        lastTime, lastTick>>

\* startSession(mode) up to the await of initMicrophone: audio.init()
startSession(sessionMode, outcome, contextState) ==
    /\ engineInit(outcome, contextState)
    /\ session' = [at |-> IF sessionMode = "mic" THEN "awaitMic" ELSE "toStart",
                   mode |-> sessionMode, ahead |-> 0]
    /\ sessionResult' = "none"
    /\ appOp' = "startSession"

micSettledGoesOn(ok) ==
    /\ initMicrophone(ok)
    /\ session' = [session EXCEPT !.at = "toStart"]
    /\ UNCHANGED sessionResult
    /\ appOp' = "startSession"

\* startSession('mic') when initMicrophone has settled: if (!success) return
\* false
micSettled(ok) ==
    /\ initMicrophone(ok)
    /\ IF ok
       THEN /\ session' = [session EXCEPT !.at = "toStart"]
            /\ UNCHANGED sessionResult
       ELSE /\ session' = NoSession
            /\ sessionResult' = "false"
    /\ appOp' = "startSession"

\* startSession: this.breathing.start(); await this.audio.start()
sessionStart(outcome, contextState) ==
    /\ start
    /\ engineStart(outcome, contextState)
    /\ IF audioResult' # "ok"
       THEN /\ session' = NoSession
            /\ sessionResult' = audioResult'
       ELSE /\ session' = IF resuming' > resuming
                          THEN [session EXCEPT !.at = "awaitResume",
                                               !.ahead = resuming']
                          ELSE [session EXCEPT !.at = "toLoop"]
            /\ UNCHANGED sessionResult
    /\ appOp' = "startSession"

\* the continuation of await this.ctx.resume(): the oldest waiting start()
\* goes on; the startSession that awaits it goes on after it
appResumed ==
    /\ resumed
    /\ IF session.at = "awaitResume"
       THEN IF session.ahead > 1
            THEN /\ session' = [session EXCEPT !.ahead = session.ahead - 1]
                 /\ UNCHANGED sessionResult
            ELSE IF audioResult' # "ok"
            THEN /\ session' = NoSession
                 /\ sessionResult' = audioResult'
            ELSE /\ session' = [session EXCEPT !.at = "toLoop", !.ahead = 0]
                 /\ UNCHANGED sessionResult
       ELSE UNCHANGED <<session, sessionResult>>
    /\ appOp' = "other"

\* startSession: this.start(); return true
sessionLoop(data, wobble) ==
    /\ loopStart(data, wobble)
    /\ session' = NoSession
    /\ sessionResult' = "true"

\* pauseSession
pauseSession ==
    /\ pause
    /\ engineStop
    /\ sessionPaused' = TRUE
    /\ appOp' = "pauseSession"

\* resumeSession
resumeSession(outcome, contextState) ==
    /\ start
    /\ engineStart(outcome, contextState)
    /\ sessionPaused' = FALSE
    /\ appOp' = "resumeSession"

\* ------------------------------------------------------- specifications
DeltaTimes == 0..MaxDt
MicBuffers == [1..MicLen -> ByteLevels]
SilentBuffer == [i \in 1..MicLen |-> 0]

Press == handlePointerDown /\ UNCHANGED beyondDetector
Release == handlePointerUp /\ UNCHANGED beyondDetector
InitMicrophone == \E ok \in BOOLEAN : initMicrophone(ok) /\ UNCHANGED beyondDetector
SetGuidedPattern == \E pattern \in Patterns : setGuidedPattern(pattern) /\ UNCHANGED beyondDetector
Update ==
    \E deltaTime \in DeltaTimes :
        \E data \in (IF mode = "mic" /\ isActive THEN MicBuffers ELSE {SilentBuffer}) :
            update(deltaTime, data) /\ UNCHANGED beyondDetector
Start == start /\ UNCHANGED beyondDetector
Pause == pause /\ UNCHANGED beyondDetector
Reset == reset /\ UNCHANGED beyondDetector

Next ==
    \/ Press
    \/ Release
    \/ InitMicrophone
    \/ SetGuidedPattern
    \/ Update
    \/ Start
    \/ Pause
    \/ Reset

Spec == Init /\ [][Next]_vars

\* manual mode only: the detector as constructed, driven by the pointer and
\* key handlers and the control methods
NextManual ==
    \/ Press
    \/ Release
    \/ Update
    \/ Start
    \/ Pause
    \/ Reset

SpecManual == Init /\ [][NextManual]_vars

\* manual and mic mode: the detector without setGuidedPattern, which the
\* application never calls
NextUnguided ==
    \/ Press
    \/ Release
    \/ InitMicrophone
    \/ Update
    \/ Start
    \/ Pause
    \/ Reset

SpecUnguided == Init /\ [][NextUnguided]_vars

\* the animation loop calls update on every frame
SpecManualFair == SpecManual /\ WF_vars(Update)

\* guided mode with the 4-7-8 pattern
SetPattern478 == setGuidedPattern(Pattern478) /\ UNCHANGED beyondDetector

Next478 ==
    \/ SetPattern478
    \/ Update
    \/ Start
    \/ Pause
    \/ Reset

Spec478 == Init /\ [][Next478]_vars

\* guided mode with patterns that have a zero-length phase, updated with the
\* delta times main.js passes: the first _animate of start() runs with
\* currentTime = 0 and passes (0 - performance.now()) / 1000, a negative number
ZeroPatterns == {<<0, 1, 1, 0>>, <<1, 0, 1, 1>>, <<1, 1, 0, 1>>}
LoopDeltaTimes == (-MaxLag)..MaxDt

SetZeroPattern ==
    \E pattern \in ZeroPatterns : setGuidedPattern(pattern) /\ UNCHANGED beyondDetector

LoopUpdate ==
    \E deltaTime \in LoopDeltaTimes :
        /\ guidedTimer + deltaTime >= -MaxLag
        /\ duration + deltaTime >= -MaxLag
        /\ update(deltaTime, SilentBuffer)
        /\ UNCHANGED beyondDetector

NextGuided ==
    \/ SetZeroPattern
    \/ LoopUpdate
    \/ Start
    \/ Pause
    \/ Reset

SpecGuided == Init /\ [][NextGuided]_vars

\* the press -> release -> press scenario on a fresh, started detector: press
\* and hold until Inhale, release until Exhale, press again until Inhale; pc
\* is the position of the scenario
InitScenario ==
    /\ mode = "manual"
    /\ phase = BreathPhase.EXHALE
    /\ intensity = NeutralIntensity
    /\ duration = 0
    /\ totalCycles = 0
    /\ isActive = FALSE
    /\ isPressed = FALSE
    /\ targetIntensity = NeutralIntensity
    /\ hasAnalyser = FALSE
    /\ guidedPattern = NullPattern
    /\ guidedTimer = 0
    /\ emitted = <<>>
    /\ lastOp = "other"
    /\ pc = "begin"
    /\ NebulaInit
    /\ AudioInit
    /\ AppInit

ScenarioStart == pc = "begin" /\ start /\ pc' = "started" /\ UNCHANGED <<nebulaVars, audioVars, appVars>>
ScenarioPress == pc = "started" /\ handlePointerDown /\ pc' = "pressed" /\ UNCHANGED <<nebulaVars, audioVars, appVars>>
ScenarioRelease == pc = "inhaled" /\ handlePointerUp /\ pc' = "released" /\ UNCHANGED <<nebulaVars, audioVars, appVars>>
ScenarioPressAgain == pc = "exhaled" /\ handlePointerDown /\ pc' = "pressedAgain" /\ UNCHANGED <<nebulaVars, audioVars, appVars>>
ScenarioUpdate ==
    /\ pc # "begin"
    /\ \E deltaTime \in DeltaTimes : update(deltaTime, SilentBuffer)
    /\ pc' = IF pc = "pressed" /\ phase' = BreathPhase.INHALE THEN "inhaled"
             ELSE IF pc = "released" /\ phase' = BreathPhase.EXHALE THEN "exhaled"
             ELSE IF pc = "pressedAgain" /\ phase' = BreathPhase.INHALE THEN "done"
             ELSE pc
    /\ UNCHANGED <<nebulaVars, audioVars, appVars>>

NextScenario ==
    \/ ScenarioStart
    \/ ScenarioPress
    \/ ScenarioRelease
    \/ ScenarioPressAgain
    \/ ScenarioUpdate

SpecScenario == InitScenario /\ [][NextScenario]_vars

\* the particle field alone, driven by the renderer's calls
NebulaUpdate ==
    \E breathIntensity \in NebulaIntensities, deltaTime \in NebulaDeltaTimes :
        /\ spawnTimer + deltaTime <= MaxSpawnTimer
        /\ nebulaUpdate(breathIntensity, deltaTime)
        /\ UNCHANGED <<detectorVars, pc, audioVars, appVars>>
NebulaResize ==
    \E size \in CanvasSizes :
        nebulaResize(size[1], size[2]) /\ UNCHANGED <<detectorVars, pc, audioVars, appVars>>
NebulaReset == nebulaReset /\ UNCHANGED <<detectorVars, pc, audioVars, appVars>>
SetPalette ==
    \E paletteName \in PaletteNames :
        setPalette(paletteName) /\ UNCHANGED <<detectorVars, pc, audioVars, appVars>>

NextNebula ==
    \/ NebulaUpdate
    \/ NebulaResize
    \/ NebulaReset
    \/ SetPalette

SpecNebula == Init /\ [][NextNebula]_vars

\* the audio engine alone, driven by the application's calls, the timer of
\* BreathingSynth.stop and the resolution of ctx.resume()
EngineInit ==
    \E outcome \in InitOutcomes, contextState \in ContextStates :
        engineInit(outcome, contextState)
        /\ UNCHANGED <<detectorVars, pc, nebulaVars, appVars>>
EngineStart ==
    \E outcome \in InitOutcomes, contextState \in ContextStates :
        /\ resuming < MaxResuming
        /\ engineStart(outcome, contextState)
        /\ UNCHANGED <<detectorVars, pc, nebulaVars, appVars>>
Resumed == resumed /\ UNCHANGED <<detectorVars, pc, nebulaVars, appVars>>
EngineStop ==
    /\ shutdownTimers < MaxTimers
    /\ engineStop
    /\ UNCHANGED <<detectorVars, pc, nebulaVars, appVars>>
Shutdown == shutdown /\ UNCHANGED <<detectorVars, pc, nebulaVars, appVars>>
EngineUpdate ==
    \E breathState \in AudioBreathStates, wobble \in Wobbles :
        engineUpdate(breathState, wobble)
        /\ UNCHANGED <<detectorVars, pc, nebulaVars, appVars>>
ToggleMute == toggleMute /\ UNCHANGED <<detectorVars, pc, nebulaVars, appVars>>
SetVolume ==
    \E volume \in Volumes :
        engineSetVolume(volume) /\ UNCHANGED <<detectorVars, pc, nebulaVars, appVars>>

NextAudio ==
    \/ EngineInit
    \/ EngineStart
    \/ Resumed
    \/ EngineStop
    \/ Shutdown
    \/ EngineUpdate
    \/ ToggleMute
    \/ SetVolume

SpecAudio == Init /\ [][NextAudio]_vars

\* the audio engine when stop() is never called
NextAudioStart ==
    \/ EngineInit
    \/ EngineStart
    \/ Resumed
    \/ EngineUpdate
    \/ ToggleMute
    \/ SetVolume

SpecAudioStart == Init /\ [][NextAudioStart]_vars

\* the setVolume -> mute -> unmute scenario: the engine is driven freely, then
\* setVolume, toggleMute and toggleMute are called one after the other on an
\* unmuted engine that has its synth; pc is the position of the scenario
MuteSetUp ==
    /\ pc = "free"
    /\ \/ EngineInit
       \/ EngineStart
       \/ Resumed
       \/ EngineStop
       \/ Shutdown
       \/ EngineUpdate
MuteSetVolume ==
    /\ pc = "free" /\ synth # NullSynth /\ ~isMuted
    /\ \E volume \in Volumes : engineSetVolume(volume)
    /\ pc' = "volumeSet"
    /\ UNCHANGED <<detectorVars, nebulaVars, appVars>>
MuteMute ==
    /\ pc = "volumeSet"
    /\ toggleMute
    /\ pc' = "muted"
    /\ UNCHANGED <<detectorVars, nebulaVars, appVars>>
MuteUnmute ==
    /\ pc = "muted"
    /\ toggleMute
    /\ pc' = "unmuted"
    /\ UNCHANGED <<detectorVars, nebulaVars, appVars>>

NextMute ==
    \/ MuteSetUp
    \/ MuteSetVolume
    \/ MuteMute
    \/ MuteUnmute

SpecMute == Init /\ [][NextMute]_vars

\* the application: sessions started from the welcome buttons, the animation
\* loop, the pointer, the Escape key and the pause overlay, the callbacks of
\* the audio engine, and the passing of time
TickData == IF mode = "mic" /\ isActive THEN MicBuffers ELSE {SilentBuffer}
\* the sessions ui.js starts: one from either button of the welcome overlay,
\* and a manual one after startSession('mic') has returned false
SessionsToStart ==
    IF session.at # "idle" THEN {}
    ELSE IF sessionResult = "none" THEN SessionModes
    ELSE IF sessionResult = "false" THEN {"manual"}
    ELSE {}

AppStartSession ==
    /\ \E sessionMode \in SessionsToStart, outcome \in InitOutcomes,
          contextState \in ContextStates :
         startSession(sessionMode, outcome, contextState)
    /\ UNCHANGED <<detectorVars, pc, nebulaVars, isRunning, lastTime,
                   animationFrameId, frames, now, sessionPaused, lastTick>>
MicSettled ==
    /\ session.at = "awaitMic"
    /\ \E ok \in BOOLEAN : micSettled(ok)
    /\ UNCHANGED <<pc, nebulaVars, audioVars, isRunning, lastTime,
                   animationFrameId, frames, now, sessionPaused, lastTick>>
SessionStart ==
    /\ session.at = "toStart"
    /\ resuming < MaxResuming
    /\ \E outcome \in InitOutcomes, contextState \in ContextStates :
         sessionStart(outcome, contextState)
    /\ UNCHANGED <<pc, nebulaVars, isRunning, lastTime, animationFrameId,
                   frames, now,
                   sessionPaused, lastTick>>
AppResumed ==
    /\ appResumed
    /\ UNCHANGED <<detectorVars, pc, nebulaVars, isRunning, lastTime,
                   animationFrameId, frames, now, sessionPaused, lastTick>>
SessionLoop ==
    /\ session.at = "toLoop"
    /\ \E data \in TickData, wobble \in {wobbleAt(now)} :
         sessionLoop(data, wobble)
    /\ UNCHANGED <<pc, now, sessionPaused>>
\* a frame callback; the frames are at least one tick apart
Frame ==
    /\ frames > 0
    /\ now > lastTick.at
    /\ \E own \in {b \in BOOLEAN : IF b THEN animationFrameId
                                   ELSE frames > (IF animationFrameId THEN 1 ELSE 0)},
          data \in TickData, wobble \in {wobbleAt(now)} :
         frame(own, data, wobble)
    /\ UNCHANGED <<pc, now, session, sessionResult, sessionPaused>>
\* the user's inputs are at least one tick apart: time passes before each
\* Escape key while the loop runs
PauseSession ==
    /\ isRunning /\ ~sessionPaused
    /\ shutdownTimers < MaxTimers
    /\ now < MaxNow
    /\ now' = now + 1
    /\ pauseSession
    /\ UNCHANGED <<pc, nebulaVars, isRunning, lastTime, animationFrameId,
                   frames,
                   session, sessionResult, lastTick>>
\* the resume button of the pause overlay
ResumeSession ==
    /\ sessionPaused
    /\ resuming < MaxResuming
    /\ now < MaxNow
    /\ now' = now + 1
    /\ \E outcome \in InitOutcomes, contextState \in ContextStates :
         resumeSession(outcome, contextState)
    /\ UNCHANGED <<pc, nebulaVars, isRunning, lastTime, animationFrameId,
                   frames,
                   session, sessionResult, lastTick>>
\* the timer of BreathingSynth.stop
AppShutdown ==
    /\ shutdown
    /\ appOp' = "other"
    /\ UNCHANGED <<detectorVars, pc, nebulaVars, isRunning, lastTime,
                   animationFrameId, frames, now, session, sessionResult,
                   sessionPaused, lastTick>>
AppPress ==
    /\ now < MaxNow
    /\ now' = now + 1
    /\ handlePointerDown
    /\ appOp' = "other"
    /\ UNCHANGED <<pc, nebulaVars, audioVars, isRunning, lastTime,
                   animationFrameId, frames, session, sessionResult,
                   sessionPaused, lastTick>>
AppRelease ==
    /\ now < MaxNow
    /\ now' = now + 1
    /\ handlePointerUp
    /\ appOp' = "other"
    /\ UNCHANGED <<pc, nebulaVars, audioVars, isRunning, lastTime,
                   animationFrameId, frames, session, sessionResult,
                   sessionPaused, lastTick>>
\* time passes: a tick, or a stall of the tab that is longer than the cap of
\* the delta time
TimePasses ==
    /\ \/ now < MaxNow /\ now' = now + 1
       \/ now <= MaxNow /\ now' = now + StallTicks
    /\ appOp' = "other"
    /\ UNCHANGED <<detectorVars, pc, nebulaVars, audioVars, isRunning,
                   lastTime, animationFrameId, frames, session, sessionResult,
                   sessionPaused, lastTick>>

NextApp ==
    \/ AppStartSession
    \/ MicSettled
    \/ SessionStart
    \/ AppResumed
    \/ SessionLoop
    \/ Frame
    \/ PauseSession
    \/ ResumeSession
    \/ AppShutdown
    \/ AppPress
    \/ AppRelease
    \/ TimePasses

SpecApp == Init /\ [][NextApp]_vars

\* the application with start() and stop() of the animation loop called
\* directly as well; the calls are at least one tick apart.  The sessions
\* are manual ones: a microphone session differs from them in the data
\* update reads only, not in the calls that reach the loop
LoopStartSession ==
    /\ \E sessionMode \in SessionsToStart \cap {"manual"},
          outcome \in InitOutcomes, contextState \in ContextStates :
         startSession(sessionMode, outcome, contextState)
    /\ UNCHANGED <<detectorVars, pc, nebulaVars, isRunning, lastTime,
                   animationFrameId, frames, now, sessionPaused, lastTick>>
LoopStart ==
    /\ now < MaxNow
    /\ now' = now + 1
    /\ \E data \in TickData, wobble \in {wobbleAt(now)} :
         loopStart(data, wobble)
    /\ UNCHANGED <<pc, session, sessionResult, sessionPaused>>
LoopStop ==
    /\ now < MaxNow
    /\ now' = now + 1
    /\ loopStop
    /\ UNCHANGED <<detectorVars, pc, nebulaVars, audioVars, lastTime, session,
                   sessionResult, sessionPaused, lastTick>>

NextLoop ==
    \/ LoopStartSession
    \/ SessionStart
    \/ AppResumed
    \/ SessionLoop
    \/ Frame
    \/ PauseSession
    \/ ResumeSession
    \/ AppShutdown
    \/ AppPress
    \/ AppRelease
    \/ TimePasses
    \/ LoopStart
    \/ LoopStop

SpecLoop == Init /\ [][NextLoop]_vars

\* ---------------------------------------------------------------- claims
CountEvent(events, kind) ==
    Cardinality({i \in 1..Len(events) : events[i][1] = kind})

GuidedRunning ==
    isActive /\ mode = "guided" /\ guidedPattern # NullPattern

\* C1: in every reachable state, whatever the mode and the calls made,
\* state.intensity lies in [0, 1].
C1_IntensityInRange == 0 <= intensity /\ intensity <= Scale

C1_Witness ==
    /\ lastOp = "update" /\ isActive /\ mode = "mic"
    /\ targetIntensity = Scale /\ intensity >= Scale - 3

\* C2: every update adds exactly 1 to totalCycles when it changes the phase
\* from Exhale to Inhale and leaves totalCycles alone otherwise, and
\* totalCycles never decreases while isActive is true.
C2_CyclesFollowTransitions ==
    [][ /\ lastOp' = "update" =>
             totalCycles' = totalCycles +
                 (IF phase = BreathPhase.EXHALE /\ phase' = BreathPhase.INHALE
                  THEN 1 ELSE 0)
        /\ (isActive /\ isActive') => totalCycles' >= totalCycles ]_vars

\* C3: in manual mode a press -> release -> press sequence whose updates take
\* the phase to Exhale and then to Inhale counts exactly one cycle.
C3_PressReleasePressCounts == pc = "done" => totalCycles = 1

\* C4: in manual mode while active, if the input stays pressed after a press
\* the phase eventually is Inhale and stays Inhale, and if it stays released
\* after a release the phase eventually is HoldOut and stays HoldOut (reset
\* no longer being called).
C4_HoldReachesPhase ==
    /\ (<>[](isActive /\ isPressed) /\ <>[][lastOp' # "reset"]_vars)
           => <>[](phase = BreathPhase.INHALE)
    /\ (<>[](isActive /\ ~isPressed /\ targetIntensity = 0)
           /\ <>[][lastOp' # "reset"]_vars)
           => <>[](phase = BreathPhase.HOLD_OUT)

C4_Witness ==
    /\ lastOp = "update" /\ isActive /\ isPressed
    /\ phase = BreathPhase.INHALE /\ emitted = <<>>

\* C5: after reset(), from whatever state, phase = Exhale, totalCycles = 0,
\* intensity = 0.5 and duration = 0.
C5_ResetState ==
    lastOp = "reset" =>
        /\ phase = BreathPhase.EXHALE
        /\ totalCycles = 0
        /\ intensity = NeutralIntensity
        /\ duration = 0

C5_Witness ==
    /\ lastOp = "reset" /\ isActive /\ mode = "guided"
    /\ guidedPattern = <<1, 1, 1, 0>> /\ guidedTimer = 1

\* C6: in guided mode every wrap of the pattern timer (a full cycle of a
\* pattern of positive length) adds exactly 1 to totalCycles.
C6_GuidedWrapCounts ==
    [][ \A deltaTime \in DeltaTimes :
          (/\ GuidedRunning
           /\ totalTimeOf(guidedPattern) > 0
           /\ update(deltaTime, SilentBuffer)
           /\ guidedTimer + deltaTime >= totalTimeOf(guidedPattern))
          => totalCycles' = totalCycles + 1 ]_vars

\* the state an update has left with the 4-7-8 pattern at timer t
At478(t) ==
    /\ lastOp = "update" /\ GuidedRunning
    /\ guidedPattern = Pattern478 /\ guidedTimer = t

C8_WrapEmitsOnce ==
    [][ \A deltaTime \in DeltaTimes :
          (/\ GuidedRunning
           /\ totalTimeOf(guidedPattern) > 0
           /\ update(deltaTime, SilentBuffer))
          => IF guidedTimer + deltaTime >= totalTimeOf(guidedPattern)
             THEN guidedTimer' = 0 /\ CountEvent(emitted', "cycleComplete") = 1
             ELSE CountEvent(emitted', "cycleComplete") = 0 ]_vars

C8_Witness ==
    /\ lastOp = "update" /\ GuidedRunning
    /\ totalTimeOf(guidedPattern) > 0
    /\ guidedTimer = 0 /\ emitted = << <<"cycleComplete", "">> >>

\* C9: update while isActive is false changes neither phase, intensity,
\* duration, totalCycles nor the guided timer and emits no event.
C9_InactiveUpdateFrozen ==
    [][ (lastOp' = "update" /\ ~isActive) =>
          /\ UNCHANGED <<phase, intensity, duration, totalCycles, guidedTimer>>
          /\ emitted' = <<>> ]_vars

C9_Witness ==
    /\ lastOp = "update" /\ ~isActive /\ mode = "guided"
    /\ guidedPattern # NullPattern /\ guidedTimer > 0
    /\ intensity # targetIntensity

\* C10: start() and pause() set isActive to true and false and leave
\* totalCycles, phase, intensity and duration as they were.
C10_StartPauseFrame ==
    [][ /\ (start \/ pause \/ isActive' # isActive) =>
               UNCHANGED <<totalCycles, phase, intensity, duration>>
        /\ start => isActive'
        /\ pause => ~isActive' ]_vars

C10_Witness ==
    /\ ~isActive /\ lastOp = "other"
    /\ totalCycles > 0 /\ duration > 0 /\ intensity # NeutralIntensity

\* ---------------------------------------------------- particle field claims
\* C11: after every NebulaVisual.update no particle of the live set has
\* life <= 0, the particles spawned in the same tick included.
C11_NoExpiredParticle ==
    nebulaOp = "update" =>
        \A k \in 1..Len(particles) : particles[k].life > 0

\* an update has left a particle one tick from its end next to one that was
\* spawned in the same tick
C11_Witness ==
    /\ nebulaOp = "update" /\ Len(particles) = 2
    /\ particles[1].age = particles[1].maxLife - 1
    /\ particles[2].age < particles[1].age

\* C12: in every reachable state of NebulaVisual the number of live
\* particles is at most maxParticles.
C12_PopulationCapped == Len(particles) <= maxParticles

\* an update has stopped spawning at the cap with spawn time left over
C12_Witness ==
    /\ nebulaOp = "update" /\ Len(particles) = maxParticles
    /\ spawnTimer >= spawnRate

\* C13: after every NebulaVisual.update every live particle has
\* 0 <= x <= canvasWidth and 0 <= y <= canvasHeight, the particles spawned in
\* that tick and those live at a resize to a smaller size included.
C13_PositionsInCanvas ==
    nebulaOp = "update" =>
        \A k \in 1..Len(particles) :
            /\ 0 <= particles[k].position[1]
            /\ particles[k].position[1] <= canvasWidth
            /\ 0 <= particles[k].position[2]
            /\ particles[k].position[2] <= canvasHeight

\* an update on the smaller canvas has left a particle spawned on the larger
\* one (it moves along y = 2, the middle of the larger canvas) next to a
\* particle spawned on the smaller one (it moves along y = 1)
C13_Witness ==
    /\ nebulaOp = "update" /\ canvasWidth = 2 /\ canvasHeight = 2
    /\ Len(particles) = 2
    /\ particles[1].velocity[1] # 0 /\ particles[1].position[2] = 2
    /\ particles[2].velocity[1] # 0 /\ particles[2].position[2] = 1

\* ------------------------------------------------------------ audio claims
\* the generators of the current set all sound
Audible ==
    /\ synth # NullSynth
    /\ synth.isPlaying
    /\ \A k \in 1..Len(Generators) : synth.oscillators[Generators[k]] = "started"

\* the breath-tone, filter and shimmer targets of a synth
toneTargets(s) ==
    <<s.breathFreq, s.breathGain, s.filterFreq, s.shimmerGain, s.shimmerFreq>>

\* C14: after stop() and then start(), whether start() comes before or after
\* the shutdown timer fires, the engine ends, with no further call, in a
\* state where it reports playing and its current generators are started:
\* once no shutdown timer and no resume is pending, an engine that reports
\* playing is audible.
C14_RestartAudible ==
    (isPlaying /\ shutdownTimers = 0 /\ resuming = 0) => Audible

\* C15: start() called two or more times with no stop(), overlapping calls
\* included, starts each generator exactly once (no start() of a generator
\* raises) and leaves the one generator set started.
C15_StartIdempotent ==
    /\ audioResult # "InvalidStateError"
    /\ isPlaying => Audible

\* of two overlapping start() calls one has started the generators and the
\* other still waits for ctx.resume()
C15_Witness ==
    /\ audioOp = "start" /\ isPlaying /\ resuming = 1 /\ Audible

\* C16: after mute() and then unmute() the master level target is the level
\* in effect before mute(), here the level set through setVolume, and mute()
\* changes no breath-tone, filter or shimmer target.
C16_UnmuteRestoresLevel ==
    [][ /\ (pc = "volumeSet" /\ pc' = "muted") =>
              toneTargets(synth') = toneTargets(synth)
        /\ (pc = "muted" /\ pc' = "unmuted") =>
              synth'.masterGain \in Volumes ]_vars

\* C17: once muted, the master level target stays 0 through start(), stop()
\* and the shutdown timer: such a step taken while muted with the target at
\* 0 leaves the target at 0.
C17_MutedStaysSilent ==
    [][ (/\ isMuted /\ isMuted'
         /\ audioOp' \in {"start", "stop", "shutdown"}
         /\ synth # NullSynth /\ synth.masterGain = 0)
        => synth'.masterGain = 0 ]_vars

\* C18: AudioEngine.update while the engine is stopped (never started, or
\* after stop(), the fade-out included) re-targets no audio parameter and
\* changes no engine state.
C18_StoppedUpdateFrozen ==
    [][ (audioOp' = "update" /\ ~isPlaying) =>
          UNCHANGED <<ctx, synth, isInitialized, isPlaying, isMuted,
                      shutdownTimers, resuming>> ]_vars

\* update has been called in the fade-out after stop()
C18_Witness ==
    /\ audioOp = "update" /\ ~isPlaying /\ ~isMuted
    /\ synth # NullSynth /\ synth.isPlaying /\ shutdownTimers > 0

\* C19: stop() on an engine that is already stopped changes no state,
\* schedules no shutdown and raises no error.
C19_StoppedStopNoOp ==
    [][ (audioOp' = "stop" /\ ~isPlaying) =>
          /\ UNCHANGED <<ctx, synth, isInitialized, isPlaying, isMuted,
                         shutdownTimers, resuming>>
          /\ audioResult' = "ok" ]_vars

\* stop() has been called on a stopped engine: no shutdown is pending, so the
\* call was not the stop() that stopped it
C19_Witness ==
    /\ audioOp = "stop" /\ ~isPlaying /\ shutdownTimers = 0
    /\ synth # NullSynth /\ ~synth.isPlaying

\* C20: when the audio subsystem cannot be created, init() returns false
\* without throwing and a start() after it completes without throwing.
C20_StartSurvivesInitFailure ==
    /\ audioOp = "init" => audioResult \in {"ok", "false"}
    /\ (audioOp = "start" /\ ~isInitialized) => audioResult = "ok"

\* ------------------------------------------------- detector claims, continued
\* C26: in every mode (manual, mic and guided), an active update that leaves
\* the phase different from the phase before it resets duration and emits
\* exactly one phaseChange event, which carries the new phase.
C26_PhaseChangeResetsAndEmits ==
    [][ (lastOp' = "update" /\ isActive /\ phase' # phase) =>
          /\ duration' = 0
          /\ CountEvent(emitted', "phaseChange") = 1
          /\ \E i \in 1..Len(emitted') : emitted'[i] = <<"phaseChange", phase'>>
      ]_vars

\* C27: every active update adds its delta time to duration, also when the
\* phase changes: after an update with a phase transition duration equals
\* that update's delta time, after one without it equals the previous value
\* plus the delta time.
C27_DurationAccumulates ==
    [][ \A deltaTime \in DeltaTimes : \A data \in MicBuffers :
          (isActive /\ update(deltaTime, data)) =>
              duration' = IF phase' # phase THEN deltaTime
                          ELSE duration + deltaTime ]_vars

\* C28: in manual and mic mode, after every active update the phase is the
\* threshold class of the intensity: Inhale above 0.8, else HoldIn above 0.6,
\* else Exhale above 0.2, else HoldOut.
C28_PhaseIsThresholdClass ==
    (lastOp = "update" /\ isActive /\ mode # "guided") =>
        phase = (IF intensity > InhaleThreshold THEN BreathPhase.INHALE
                 ELSE IF intensity > HoldInThreshold THEN BreathPhase.HOLD_IN
                 ELSE IF intensity > ExhaleThreshold THEN BreathPhase.EXHALE
                 ELSE BreathPhase.HOLD_OUT)

C28_Witness ==
    /\ lastOp = "update" /\ isActive /\ mode = "mic"
    /\ phase = BreathPhase.HOLD_IN
    /\ intensity > HoldInThreshold /\ intensity <= InhaleThreshold

phaseDuration(q, ph) ==
    CASE ph = BreathPhase.INHALE -> q[1]
      [] ph = BreathPhase.HOLD_IN -> q[2]
      [] ph = BreathPhase.EXHALE -> q[3]
      [] ph = BreathPhase.HOLD_OUT -> q[4]

\* C30: for every guided pattern whose four durations are >= 0 with a
\* positive total, no update divides by a zero duration (it leaves no NaN
\* target), and the phase an update reports has a duration above 0.
C30_ZeroDurationsTolerated ==
    (/\ lastOp = "update" /\ GuidedRunning
     /\ \A k \in 1..4 : guidedPattern[k] >= 0
     /\ totalTimeOf(guidedPattern) > 0)
    => /\ targetIntensity # NaN
       /\ phaseDuration(guidedPattern, phase) > 0

\* ------------------------------------------ particle field claims, continued
\* C23: NebulaVisual.update with a delta time <= 0 is a no-op for motion:
\* every live particle has the same position and age after the call as before
\* it, and the call spawns no particle.
C23_NonPositiveDeltaNoMotion ==
    [][ \A breathIntensity \in NebulaIntensities :
        \A deltaTime \in {d \in NebulaDeltaTimes : d <= 0} :
          nebulaUpdate(breathIntensity, deltaTime) =>
              /\ Len(particles') = Len(particles)
              /\ \A k \in 1..Len(particles) :
                    /\ particles'[k].position = particles[k].position
                    /\ particles'[k].age = particles[k].age ]_vars

\* ------------------------------------------------------ application claims
\* C21: when microphone acquisition fails, initMicrophone returns false
\* without throwing and leaves the detector in manual mode; startSession('mic')
\* then returns false and starts neither breath detection, nor audio, nor the
\* animation loop.
C21_MicFailureStartsNothing ==
    [][ (session.at = "awaitMic" /\ micSettled(FALSE)) =>
          /\ mode' = "manual"
          /\ sessionResult' = "false"
          /\ session' = NoSession
          /\ UNCHANGED <<isActive, isPlaying, synth, resuming, isRunning,
                         animationFrameId, frames, lastTick>> ]_vars

C21_Witness ==
    /\ appOp = "startSession" /\ sessionResult = "false" /\ session = NoSession
    /\ mode = "manual" /\ ~isActive /\ ~isRunning
    /\ isInitialized /\ ~isPlaying /\ ~lastTick.ran

\* C22: every delta time the animation loop passes to
\* BreathingDetector.update and VisualRenderer.update lies in [0, 0.1]
\* seconds, on the first tick after start() and after a stall too.
C22_DeltaTimeInRange ==
    lastTick.ran =>
        /\ 0 <= lastTick.deltaTime
        /\ lastTick.deltaTime <= MaxDeltaTime

\* C24: in every animation tick the calls are made in the order
\* breathing.update, getState, visuals.update, audio.update, render, visuals
\* and audio get the same BreathState snapshot, and it is the state the
\* detector has when the tick ends: nothing changes the breath state between
\* the first and the last call.
C24_TickOrderAndSnapshot ==
    appOp = "tick" =>
        /\ lastTick.calls = <<"breathing.update", "getState", "visuals.update",
                              "audio.update", "render">>
        /\ lastTick.visualsSaw = lastTick.audioSaw
        /\ lastTick.visualsSaw =
               [phase |-> phase, intensity |-> intensity, duration |-> duration,
                totalCycles |-> totalCycles, isActive |-> isActive]

C24_Witness ==
    /\ appOp = "tick" /\ isActive /\ isPlaying
    /\ intensity > NeutralIntensity /\ phase = BreathPhase.HOLD_IN
    /\ Len(particles) > 0

\* C25: while the session is paused (pauseSession called, resumeSession not
\* yet), an animation tick leaves the BreathState unchanged and removes no
\* particle that was live: each one is still in the live set after the tick.
C25_PausedTicksPreserve ==
    [][ (appOp' = "tick" /\ sessionPaused) =>
          /\ UNCHANGED state
          /\ Len(particles') >= Len(particles)
          /\ \A k \in 1..Len(particles) :
                /\ particles'[k].maxLife = particles[k].maxLife
                /\ particles'[k].age = particles[k].age + lastTick'.deltaTime
      ]_vars

\* ------------------------------------- particle field claims, concluded
\* C31: the steering force computed for a particle in a tick takes effect on
\* its velocity: in an update with a positive delta time, a particle that
\* stays live, is below the velocity cap and is away from the centre gains
\* velocity along the steering force (toward the centre for intensity < 0.3,
\* away from it otherwise).
C31_SteeringTakesEffect ==
    [][ \A breathIntensity \in NebulaIntensities :
        \A deltaTime \in {d \in NebulaDeltaTimes : d > 0} :
          nebulaUpdate(breathIntensity, deltaTime) =>
            \A k \in 1..Len(particles) :
              LET force == steering(particles[k].position, breathIntensity,
                                    canvasWidth, canvasHeight)
                  gain == VSub(particles'[k].velocity, particles[k].velocity)
              IN  ( /\ \A j \in 1..k :
                         alive(particleUpdate(particles[j], deltaTime,
                                              breathIntensity,
                                              canvasWidth, canvasHeight))
                    /\ force # <<0, 0>>
                    /\ magnitude(particles[k].velocity) < maxSpeed * Scale )
                  => gain[1] * force[1] + gain[2] * force[2] > 0 ]_vars

\* C32: resize(width, height) regenerates the background starfield for the
\* new size and leaves the live particles (position, velocity, age, life of
\* each) and the spawn timer as they were.
C32_ResizeKeepsParticles ==
    [][ \A size \in CanvasSizes :
          nebulaResize(size[1], size[2]) =>
              /\ backgroundStars' = size
              /\ particles' = particles
              /\ spawnTimer' = spawnTimer ]_vars

\* a resize to the smaller canvas has left a live particle where it was,
\* beyond the new right edge, and the spawn timer running
C32_Witness ==
    /\ nebulaOp = "other" /\ Len(particles) > 0 /\ spawnTimer > 0
    /\ particles[1].position[1] > canvasWidth
    /\ backgroundStars = <<canvasWidth, canvasHeight>>

\* C33: every particle is rendered with a colour sampled from the currently
\* active palette at its colour position, which lies in [0, 1]: the particles
\* spawned before a setPalette(p) are coloured from p too.
C33_ColouredFromActivePalette ==
    \A k \in 1..Len(particles) :
        /\ renderColor(particles[k]).palette = palette
        /\ renderColor(particles[k]).at = particles[k].colorPosition
        /\ 0 <= particles[k].colorPosition
        /\ particles[k].colorPosition <= Scale

C36_NoGeneratorMisuse ==
    ~(audioOp \in {"start", "shutdown"} /\ audioResult = "InvalidStateError")

\* C37: for every sequence of start() and stop() calls of the audio engine at
\* most one shutdown timer of BreathingSynth.stop is pending at any time.
C37_OneShutdownTimer == shutdownTimers <= 1

\* ------------------------------------------------ detector claims, concluded
\* the place of a phase in the order HoldOut - Exhale - HoldIn - Inhale of
\* the intensity bands
band(ph) ==
    CASE ph = BreathPhase.HOLD_OUT -> 0
      [] ph = BreathPhase.EXHALE -> 1
      [] ph = BreathPhase.HOLD_IN -> 2
      [] ph = BreathPhase.INHALE -> 3

\* C35: in manual and mic mode a single active update changes the phase only
\* to the same or an adjacent band in the order HoldOut - Exhale - HoldIn -
\* Inhale, and would do so for any target in [0, 1]; in particular no update
\* goes from Exhale to Inhale.
C35_AdjacentBandsOnly ==
    [][ (lastOp' = "update" /\ isActive /\ mode # "guided") =>
          /\ band(phase') - band(phase) \in {-1, 0, 1}
          /\ ~(phase = BreathPhase.EXHALE /\ phase' = BreathPhase.INHALE)
          /\ \A target \in 0..Scale :
                band(classify(smooth(intensity, target))) - band(phase)
                    \in {-1, 0, 1} ]_vars

\* an update in mic mode has taken the phase from HoldIn to Inhale
C35_Witness ==
    /\ lastOp = "update" /\ mode = "mic" /\ isActive
    /\ phase = BreathPhase.INHALE
    /\ emitted = <<<<"phaseChange", BreathPhase.INHALE>>>>

\* ------------------------------------------- application claims, concluded
\* C38: for every sequence of startSession, start, stop, pauseSession and
\* resumeSession calls at most one animation-frame callback is scheduled at
\* any time: there is never a second callback chain.
C38_OneFrameChain == frames <= 1

\* a start() call on the running loop has left the one chain as it was
C38_Witness ==
    /\ appOp = "start" /\ isRunning /\ lastTick.ran
    /\ animationFrameId /\ frames = 1

====
